---- MODULE Spec2Model ----
(***************************************************************************)
(* namedtuple_defaults (namedtuple-expert-python.ipynb, final code cell):  *)
(*                                                                         *)
(*     def namedtuple_defaults(typename, field_names, defaults):           *)
(*         nt = namedtuple(typename, field_names)                          *)
(*         nt.__new__.__defaults__ = defaults                              *)
(*         return nt                                                       *)
(*                                                                         *)
(* The model holds the classes the function has returned, the instances    *)
(* built from them, and the outcome of the last call.  A Python str is a   *)
(* sequence of one-character strings, a tuple or list a sequence, an       *)
(* object's identity its index in the heap that holds it.                  *)
(***************************************************************************)
EXTENDS Integers, Sequences, FiniteSets, TLC

VARIABLES types, insts, call, ret

vars == <<types, insts, call, ret>>

----------------------------------------------------------------------------
(* Bounds of the model. *)

MaxTypes == 2
MaxInsts == 2
MaxStrLen == 3
MaxNames == 2
MaxDefaults == 2
MaxArgs == 3
MaxKw == 2

----------------------------------------------------------------------------
(* Python str helpers. *)

Letters == {"a", "s", "z", "L", "M", "c", "l"}
Digits == {"1"}
Whitespace == {" ", "\t", "\n"}

\* The keywords (keyword.iskeyword) that the letters above can spell.
Keywords == {<<"a", "s">>, <<"c", "l", "a", "s", "s">>}

NULL == -1

Min(a, b) == IF a < b THEN a ELSE b

\* s.replace(',', ' ')
ReplaceCommas(s) == [i \in 1..Len(s) |-> IF s[i] = "," THEN " " ELSE s[i]]

\* s.split(): the maximal runs of non-whitespace characters, in order.
RECURSIVE SplitFrom(_, _, _, _)
SplitFrom(s, i, cur, acc) ==
  IF i > Len(s)
  THEN IF cur = <<>> THEN acc ELSE Append(acc, cur)
  ELSE IF s[i] \in Whitespace
       THEN SplitFrom(s, i + 1, <<>>, IF cur = <<>> THEN acc ELSE Append(acc, cur))
       ELSE SplitFrom(s, i + 1, Append(cur, s[i]), acc)

\* Mutant of Split: s.split(' '), which keeps the empty strings between,
\* before and after the separators.
RECURSIVE SplitKeepEmptyFrom(_, _, _, _)
SplitKeepEmptyFrom(s, i, cur, acc) ==
  IF i > Len(s)
  THEN Append(acc, cur)
  ELSE IF s[i] \in Whitespace
       THEN SplitKeepEmptyFrom(s, i + 1, <<>>, Append(acc, cur))
       ELSE SplitKeepEmptyFrom(s, i + 1, Append(cur, s[i]), acc)

SplitKeepEmpty(s) == SplitKeepEmptyFrom(s, 1, <<>>, <<>>)

Split(s) == SplitFrom(s, 1, <<>>, <<>>)

\* name.isidentifier()
IsIdentifier(name) ==
  /\ Len(name) > 0
  /\ name[1] \in Letters \cup {"_"}
  /\ \A i \in 2..Len(name) : name[i] \in Letters \cup Digits \cup {"_"}

IsKeyword(name) == name \in Keywords

----------------------------------------------------------------------------
(* collections.namedtuple, as called on the first line of the function. *)

\* The two shapes field_names is passed in: one str, or a sequence of str.
StrForm(chars) == [kind |-> "str", chars |-> chars, names |-> <<>>]
SeqForm(names) == [kind |-> "seq", chars |-> <<>>, names |-> names]

\* if isinstance(field_names, str):
\*     field_names = field_names.replace(',', ' ').split()
\* field_names = list(map(str, field_names))
Normalize(field_names) ==
  IF field_names.kind = "str"
  THEN Split(ReplaceCommas(field_names.chars))
  ELSE field_names.names

\* for name in [typename] + field_names: the first name that is no identifier
\* or is a keyword raises ValueError.
CheckIdentifiers(all) ==
  LET bad == {i \in 1..Len(all) : ~IsIdentifier(all[i]) \/ IsKeyword(all[i])}
  IN  IF bad = {} THEN "ok"
      ELSE LET i == CHOOSE k \in bad : \A j \in bad : k <= j
           IN  IF ~IsIdentifier(all[i]) THEN "identifier" ELSE "keyword"

\* Mutant of CheckFields: the seen set is never consulted.
CheckFieldsNoDuplicate(names) ==
  IF \E i \in 1..Len(names) : names[i][1] = "_" THEN "underscore" ELSE "ok"

\* for name in field_names: the first name that starts with an underscore or
\* was seen before raises ValueError.
CheckFields(names) ==
  LET bad == {i \in 1..Len(names) :
                \/ names[i][1] = "_"
                \/ \E j \in 1..(i - 1) : names[j] = names[i]}
  IN  IF bad = {} THEN "ok"
      ELSE LET i == CHOOSE k \in bad : \A j \in bad : k <= j
           IN  IF names[i][1] = "_" THEN "underscore" ELSE "duplicate"

\* A class object: its __name__, its _fields and __new__.__defaults__
\* (None, which binds nothing, is the empty tuple).
Class(typename, fields, defaults) ==
  [name |-> typename, fields |-> fields, defaults |-> defaults]

NoClass == Class(<<>>, <<>>, <<>>)

namedtuple(typename, field_names) ==
  LET names == Normalize(field_names)
      c1    == CheckIdentifiers(<<typename>> \o names)
      c2    == IF c1 = "ok" THEN CheckFields(names) ELSE c1
  IN  IF c2 = "ok"
      THEN [status |-> "ok", msg |-> "", cls |-> Class(typename, names, <<>>)]
      ELSE [status |-> "ValueError", msg |-> c2, cls |-> NoClass]

----------------------------------------------------------------------------
(* The function itself. *)

\* The defaults argument: a tuple at every call site of the notebook; a list
\* is the other sequence a caller can pass.
TupleOf(vals) == [kind |-> "tuple", vals |-> vals]
ListOf(vals) == [kind |-> "list", vals |-> vals]

\* nt.__new__.__defaults__ = defaults: the setter takes a tuple of any
\* length and raises TypeError for anything else.
SetDefaults(nt, defaults) ==
  IF defaults.kind = "tuple"
  THEN [status |-> "ok", msg |-> "", cls |-> [nt EXCEPT !.defaults = defaults.vals]]
  ELSE [status |-> "TypeError", msg |-> "defaults_not_tuple", cls |-> NoClass]

\* Mutant of namedtuple_defaults: a failed assignment of the defaults is
\* swallowed and the class is returned without them.
namedtuple_defaults_swallow(typename, field_names, defaults) ==
  LET r1 == namedtuple(typename, field_names)
      r2 == SetDefaults(r1.cls, defaults)
  IN  IF r1.status # "ok"
      THEN [status |-> r1.status, msg |-> r1.msg, line |-> 1, cls |-> NoClass]
      ELSE IF r2.status # "ok"
      THEN [status |-> "ok", msg |-> "", line |-> 0, cls |-> r1.cls]
      ELSE [status |-> "ok", msg |-> "", line |-> 0, cls |-> r2.cls]

\* The outcome carries the line that raised: 1 for the namedtuple call,
\* 2 for the assignment of the defaults, 0 for a normal return.
namedtuple_defaults(typename, field_names, defaults) ==
  LET r1 == namedtuple(typename, field_names)
      r2 == SetDefaults(r1.cls, defaults)
  IN  IF r1.status # "ok"
      THEN [status |-> r1.status, msg |-> r1.msg, line |-> 1, cls |-> NoClass]
      ELSE IF r2.status # "ok"
      THEN [status |-> r2.status, msg |-> r2.msg, line |-> 2, cls |-> NoClass]
      ELSE [status |-> "ok", msg |-> "", line |-> 0, cls |-> r2.cls]

----------------------------------------------------------------------------
(* Calling a returned class: the interpreter binds the arguments to the     *)
(* parameters (_cls, field1, ..., fieldn) of __new__, then builds the tuple. *)

ClsParam == <<"_", "c", "l", "s">>

Kw(name, value) == [name |-> name, value |-> value]

\* The keyword arguments, in call order: an unknown name raises, a parameter
\* already bound raises, otherwise the parameter is bound.
RECURSIVE BindKeywords(_, _, _, _)
BindKeywords(varnames, locals, kwargs, k) ==
  IF k > Len(kwargs)
  THEN [msg |-> "ok", locals |-> locals]
  ELSE LET hits == {j \in 1..Len(varnames) : varnames[j] = kwargs[k].name}
       IN  IF hits = {}
           THEN [msg |-> "unexpected_keyword", locals |-> locals]
           ELSE LET j == CHOOSE h \in hits : TRUE
                IN  IF locals[j] # NULL
                    THEN [msg |-> "multiple_values", locals |-> locals]
                    ELSE BindKeywords(varnames,
                                      [locals EXCEPT ![j] = kwargs[k].value],
                                      kwargs, k + 1)

\* Mutant of FillDefaults: the defaults aligned to the start of the field
\* list (default i belongs to field i).
FillDefaultsLeft(locals, defs, m) ==
  [p \in 1..Len(locals) |->
     IF locals[p] = NULL /\ p - 1 \in 1..Len(defs) THEN defs[p - 1] ELSE locals[p]]

\* The parameters left unbound take the defaults, which are aligned to the
\* end of the parameter list: default i belongs to parameter m + i.
FillDefaults(locals, defs, m) ==
  [p \in 1..Len(locals) |->
     IF locals[p] = NULL /\ p - m \in 1..Len(defs) THEN defs[p - m] ELSE locals[p]]

\* Mutant of BindArgs: the count of missing arguments is never taken.
BindArgsNoMissing(cls, pos, kwargs) ==
  LET varnames    == <<ClsParam>> \o cls.fields
      co_argcount == Len(varnames)
      argcount    == Len(pos)
      n           == Min(argcount, co_argcount)
      locals0     == [p \in 1..co_argcount |-> IF p <= n THEN pos[p] ELSE NULL]
      kw          == BindKeywords(varnames, locals0, kwargs, 1)
      m           == co_argcount - Len(cls.defaults)
      filled      == IF argcount < co_argcount
                     THEN FillDefaults(kw.locals, cls.defaults, m)
                     ELSE kw.locals
  IN  IF kw.msg # "ok"
      THEN [status |-> "TypeError", msg |-> kw.msg, vals |-> <<>>]
      ELSE IF argcount > co_argcount
      THEN [status |-> "TypeError", msg |-> "too_many_positional", vals |-> <<>>]
      ELSE [status |-> "ok", msg |-> "", vals |-> SubSeq(filled, 2, co_argcount)]

\* pos is the positional argument list, the class first.
BindArgs(cls, pos, kwargs) ==
  LET varnames    == <<ClsParam>> \o cls.fields
      co_argcount == Len(varnames)
      argcount    == Len(pos)
      n           == Min(argcount, co_argcount)
      locals0     == [p \in 1..co_argcount |-> IF p <= n THEN pos[p] ELSE NULL]
      kw          == BindKeywords(varnames, locals0, kwargs, 1)
      m           == co_argcount - Len(cls.defaults)
      missing     == {p \in (argcount + 1)..m : kw.locals[p] = NULL}
      filled      == IF argcount < co_argcount
                     THEN FillDefaults(kw.locals, cls.defaults, m)
                     ELSE kw.locals
  IN  IF kw.msg # "ok"
      THEN [status |-> "TypeError", msg |-> kw.msg, vals |-> <<>>]
      ELSE IF argcount > co_argcount
      THEN [status |-> "TypeError", msg |-> "too_many_positional", vals |-> <<>>]
      ELSE IF argcount < co_argcount /\ missing # {}
      THEN [status |-> "TypeError", msg |-> "missing", vals |-> <<>>]
      ELSE [status |-> "ok", msg |-> "", vals |-> SubSeq(filled, 2, co_argcount)]

\* An instance: the class it was built from and its tuple of values.
Instance(t, vals) == [cls |-> t, vals |-> vals]

\* The attribute every object has besides the fields: its class.
ClassAttr == <<"_", "_", "c", "l", "a", "s", "s", "_", "_">>

\* A value read or assigned: a number, or a class returned by the function.
IntVal(v) == [kind |-> "int", val |-> v, ref |-> 0]
ClassVal(t) == [kind |-> "class", val |-> NULL, ref |-> t]

\* instance.name: __class__ is the class of the instance; each field is a
\* read-only property over its position in the tuple (IndexError when the
\* tuple is shorter than the field list of its class: see SetAttr).
GetAttr(cls, inst, name) ==
  LET hits == {j \in 1..Len(cls.fields) : cls.fields[j] = name}
  IN  IF name = ClassAttr
      THEN [status |-> "ok", value |-> NULL, ref |-> inst.cls]
      ELSE IF hits = {}
      THEN [status |-> "AttributeError", value |-> NULL, ref |-> 0]
      ELSE IF (CHOOSE h \in hits : TRUE) > Len(inst.vals)
      THEN [status |-> "IndexError", value |-> NULL, ref |-> 0]
      ELSE [status |-> "ok", value |-> inst.vals[CHOOSE h \in hits : TRUE],
            ref |-> 0]

\* Mutant of SetAttr: the properties have a setter.
SetAttrMutable(cls, inst, name, v) ==
  LET hits == {j \in 1..Len(cls.fields) : cls.fields[j] = name}
  IN  IF name = ClassAttr
      THEN IF v.kind = "class"
           THEN [status |-> "ok", inst |-> [inst EXCEPT !.cls = v.ref]]
           ELSE [status |-> "TypeError", inst |-> inst]
      ELSE IF hits = {} \/ v.kind # "int"
              \/ (CHOOSE h \in hits : TRUE) > Len(inst.vals)
      THEN [status |-> "AttributeError", inst |-> inst]
      ELSE [status |-> "ok",
            inst |-> [inst EXCEPT !.vals[CHOOSE h \in hits : TRUE] = v.val]]

\* instance.name = v: a field's property has no setter, and __slots__ = ()
\* leaves no place for any other attribute.  __class__ alone can be
\* assigned: another class returned by the function has the same layout and
\* becomes the class of the instance, whose tuple stays; anything that is
\* no class raises TypeError.
SetAttr(cls, inst, name, v) ==
  IF name = ClassAttr
  THEN IF v.kind = "class"
       THEN [status |-> "ok", inst |-> [inst EXCEPT !.cls = v.ref]]
       ELSE [status |-> "TypeError", inst |-> inst]
  ELSE [status |-> "AttributeError", inst |-> inst]

\* a == b is tuple equality: the classes play no part.
TupleEq(a, b) == a.vals = b.vals

----------------------------------------------------------------------------
(* The state: the classes returned so far, the instances built so far, the *)
(* last call made and what it returned or raised.                          *)

\* Mutant of Allocate: an object equal to an earlier one is not created
\* again, the earlier one is handed back.
AllocateCached(heap, obj) ==
  IF \E i \in 1..Len(heap) : heap[i] = obj
  THEN [heap |-> heap, ref |-> CHOOSE i \in 1..Len(heap) : heap[i] = obj]
  ELSE [heap |-> Append(heap, obj), ref |-> Len(heap) + 1]

\* A new object joins the heap under an identity no earlier object has.
Allocate(heap, obj) == [heap |-> Append(heap, obj), ref |-> Len(heap) + 1]

\* What a call hands back: ref is the object returned (0: none), value the
\* value read, eq the result of a comparison, line the line that raised.
Ret(status, msg, line, ref, value, eq) ==
  [status |-> status, msg |-> msg, line |-> line, ref |-> ref,
   value |-> value, eq |-> eq]

Init ==
  /\ types = <<>>
  /\ insts = <<>>
  /\ call = [op |-> "none"]
  /\ ret = Ret("ok", "", 0, 0, NULL, FALSE)

\* nt = namedtuple_defaults(typename, field_names, defaults)
DoFactory(typename, field_names, defaults) ==
  LET r == namedtuple_defaults(typename, field_names, defaults)
      a == Allocate(types, r.cls)
  IN  /\ call' = [op |-> "namedtuple_defaults", typename |-> typename,
                  field_names |-> field_names, defaults |-> defaults]
      /\ IF r.status = "ok"
         THEN /\ types' = a.heap
              /\ ret' = Ret("ok", "", 0, a.ref, NULL, FALSE)
         ELSE /\ types' = types
              /\ ret' = Ret(r.status, r.msg, r.line, 0, NULL, FALSE)
      /\ UNCHANGED insts

\* inst = nt(*args, **kwargs), nt the class with identity t
DoConstruct(t, args, kwargs) ==
  LET r == BindArgs(types[t], <<t>> \o args, kwargs)
      a == Allocate(insts, Instance(t, r.vals))
  IN  /\ call' = [op |-> "construct", cls |-> t, args |-> args, kwargs |-> kwargs]
      /\ IF r.status = "ok"
         THEN /\ insts' = a.heap
              /\ ret' = Ret("ok", "", 0, a.ref, NULL, FALSE)
         ELSE /\ insts' = insts
              /\ ret' = Ret(r.status, r.msg, 0, 0, NULL, FALSE)
      /\ UNCHANGED types

\* inst.name
DoGetField(i, name) ==
  LET r == GetAttr(types[insts[i].cls], insts[i], name)
  IN  /\ call' = [op |-> "getattr", inst |-> i, name |-> name]
      /\ ret' = Ret(r.status, "", 0, r.ref, r.value, FALSE)
      /\ UNCHANGED <<types, insts>>

\* inst.name = v
DoSetField(i, name, v) ==
  LET r == SetAttr(types[insts[i].cls], insts[i], name, v)
  IN  /\ call' = [op |-> "setattr", inst |-> i, name |-> name, value |-> v]
      /\ insts' = [insts EXCEPT ![i] = r.inst]
      /\ ret' = Ret(r.status, "", 0, 0, NULL, FALSE)
      /\ UNCHANGED types

\* insts[i] == insts[j]
DoCompare(i, j) ==
  /\ call' = [op |-> "eq", left |-> i, right |-> j]
  /\ ret' = Ret("ok", "", 0, 0, NULL, TupleEq(insts[i], insts[j]))
  /\ UNCHANGED <<types, insts>>

----------------------------------------------------------------------------
(* The inputs. *)

\* The sequences over S of length at most n.
SeqsUpTo(S, n) == UNION {[1..k -> S] : k \in 0..n}

\* Keyword arguments: no name twice (the call syntax forbids it).
KwSeqs(names, vals, n) ==
  {kws \in SeqsUpTo({Kw(nm, v) : nm \in names, v \in vals}, n) :
     \A i, j \in 1..Len(kws) : i # j => kws[i].name # kws[j].name}

ArgVals == {1, 2}
KwVals == {3}
DefaultVals == {10, 20}
AttrNames == {<<"a">>, <<"s">>, <<"z">>}

\* Spec: a heap of classes and instances, over the calls a program makes
\* on them: calls of the function, constructions, reads of and assignments
\* to attributes (the names of fields, assigned a number, and __class__,
\* assigned a number or a class returned so far), comparisons.
TypeNames == {<<"L">>}
FieldNames ==
  {StrForm(<<"a", " ", "s">>), SeqForm(<<<<"z">>>>), SeqForm(<<<<"a">>, <<"a">>>>)}
Defaults == {TupleOf(<<10>>), ListOf(<<10>>)}
Args == {<<>>, <<1>>}
Kwargs == KwSeqs({<<"c">>}, KwVals, 1)

Factory ==
  /\ Len(types) < MaxTypes
  /\ \E typename \in TypeNames, field_names \in FieldNames, defaults \in Defaults :
       DoFactory(typename, field_names, defaults)

Construct ==
  /\ Len(insts) < MaxInsts
  /\ \E t \in DOMAIN types, args \in Args, kwargs \in Kwargs :
       DoConstruct(t, args, kwargs)

GetField ==
  \E i \in DOMAIN insts, name \in AttrNames \cup {ClassAttr} : DoGetField(i, name)

SetField ==
  \E i \in DOMAIN insts :
    \/ \E name \in AttrNames, x \in KwVals : DoSetField(i, name, IntVal(x))
    \/ \E v \in {IntVal(x) : x \in KwVals} \cup {ClassVal(t) : t \in DOMAIN types} :
         DoSetField(i, ClassAttr, v)

Compare == \E i, j \in DOMAIN insts : DoCompare(i, j)

Next == Factory \/ Construct \/ GetField \/ SetField \/ Compare

Spec == Init /\ [][Next]_vars

\* SpecCall: one call of the function on any input, then calls of the class
\* it returned on any arguments.
StrChars == {"a", "s", " ", ","}
NamePool ==
  {<<"a">>, <<"s">>, <<"a", "1">>, <<"a", "s">>, <<>>, <<"_", "a">>, <<"1">>,
   <<"a", " ", "s">>}
CallTypeNames == {<<"L">>, <<"1">>}
CallFieldNames ==
  {StrForm(s) : s \in SeqsUpTo(StrChars, MaxStrLen)}
    \cup {SeqForm(l) : l \in SeqsUpTo(NamePool, MaxNames)}
CallDefaults ==
  {TupleOf(v) : v \in SeqsUpTo(DefaultVals, MaxDefaults)}
    \cup {ListOf(v) : v \in SeqsUpTo(DefaultVals, MaxDefaults)}
CallArgs == SeqsUpTo(ArgVals, MaxArgs)
CallKwargs == KwSeqs(AttrNames, KwVals, MaxKw)

CallFactory ==
  /\ call.op = "none"
  /\ \E typename \in CallTypeNames, field_names \in CallFieldNames,
        defaults \in CallDefaults :
       DoFactory(typename, field_names, defaults)

CallConstruct ==
  /\ call.op = "namedtuple_defaults"
  /\ \E t \in DOMAIN types, args \in CallArgs, kwargs \in CallKwargs :
       DoConstruct(t, args, kwargs)

CallGetField ==
  /\ call.op = "construct"
  /\ \E i \in DOMAIN insts, name \in AttrNames : DoGetField(i, name)

NextCall == CallFactory \/ CallConstruct \/ CallGetField

SpecCall == Init /\ [][NextCall]_vars

----------------------------------------------------------------------------
(* Vocabulary of the properties, stated without the operators above.       *)

Delims == Whitespace \cup {","}

\* The names written in a delimited string: its maximal delimiter-free
\* stretches, in the order they start.
TokenSpans(s) ==
  {sp \in (1..Len(s)) \X (1..Len(s)) :
     /\ sp[1] <= sp[2]
     /\ \A k \in sp[1]..sp[2] : s[k] \notin Delims
     /\ (sp[1] = 1 \/ s[sp[1] - 1] \in Delims)
     /\ (sp[2] = Len(s) \/ s[sp[2] + 1] \in Delims)}

Tokens(s) ==
  LET spans == TokenSpans(s)
  IN  [k \in 1..Cardinality(spans) |->
         LET sp == CHOOSE x \in spans :
                     Cardinality({y \in spans : y[1] < x[1]}) = k - 1
         IN  SubSeq(s, sp[1], sp[2])]

\* The names a caller passed, whichever way they were passed.
GivenNames(field_names) ==
  IF field_names.kind = "str" THEN Tokens(field_names.chars) ELSE field_names.names

KwNamesOf(kwargs) == {kwargs[i].name : i \in 1..Len(kwargs)}

KwValueOf(kwargs, name) ==
  kwargs[CHOOSE i \in 1..Len(kwargs) : kwargs[i].name = name].value

\* The fields of cls that a call gives neither by position nor by keyword.
Unsupplied(cls, args, kwargs) ==
  {i \in 1..Len(cls.fields) : i > Len(args) /\ cls.fields[i] \notin KwNamesOf(kwargs)}

\* A call that gives no field twice, no unknown keyword and no extra value.
WellFormed(cls, args, kwargs) ==
  /\ Len(args) <= Len(cls.fields)
  /\ \A k \in 1..Len(kwargs) :
       \E i \in (Len(args) + 1)..Len(cls.fields) : cls.fields[i] = kwargs[k].name

\* The value field i must hold: the one supplied, else the default aligned
\* to the end of the field list.
ExpectedValue(cls, args, kwargs, i) ==
  IF i <= Len(args) THEN args[i]
  ELSE IF cls.fields[i] \in KwNamesOf(kwargs) THEN KwValueOf(kwargs, cls.fields[i])
  ELSE cls.defaults[i - (Len(cls.fields) - Len(cls.defaults))]

IsFactoryCall == call.op = "namedtuple_defaults"
IsConstructCall == call.op = "construct"

----------------------------------------------------------------------------
(* Properties of one call of the function and of the class it returns      *)
(* (SpecCall).                                                             *)

\* C1: when a class has no more defaults than fields, a call that supplies
\* all fields, or all but the last k with k at most the number of defaults,
\* succeeds, and each omitted field i holds defaults[i - (n - d)].
C1_TrailingDefaults ==
  IsConstructCall =>
    LET cls == types[call.cls]
        n   == Len(cls.fields)
        d   == Len(cls.defaults)
        om  == Unsupplied(cls, call.args, call.kwargs)
        k   == Cardinality(om)
    IN  (/\ d <= n
         /\ WellFormed(cls, call.args, call.kwargs)
         /\ k <= d
         /\ om = (n - k + 1)..n)
        => /\ ret.status = "ok"
           /\ ret.ref \in DOMAIN insts
           /\ insts[ret.ref].cls = call.cls
           /\ Len(insts[ret.ref].vals) = n
           /\ \A i \in 1..n :
                insts[ret.ref].vals[i] =
                  ExpectedValue(cls, call.args, call.kwargs, i)

\* Two fields, one default, the last field omitted: it holds the default.
C1_Witness ==
  /\ IsConstructCall
  /\ Len(types[call.cls].fields) = 2
  /\ Len(types[call.cls].defaults) = 1
  /\ Len(call.args) = 1
  /\ call.kwargs = <<>>
  /\ ret.status = "ok"
  /\ insts[ret.ref].vals = <<call.args[1], types[call.cls].defaults[1]>>

\* A field is required when it is not among the last len(defaults) fields.
RequiredFields(cls) ==
  {i \in 1..Len(cls.fields) : i <= Len(cls.fields) - Len(cls.defaults)}

\* C2 as stated: a call that leaves a required field unsupplied fails with
\* the missing-argument error.
C2_MissingAlways ==
  IsConstructCall =>
    LET cls == types[call.cls]
    IN  (Unsupplied(cls, call.args, call.kwargs) \cap RequiredFields(cls) # {})
        => (ret.status = "TypeError" /\ ret.msg = "missing")

\* C2, amended: a call that leaves a required field unsupplied fails and
\* yields no instance; the error is the missing-argument error exactly when
\* the call has no unknown keyword and gives no field twice (those errors
\* are raised first).
C2_MissingUnlessKeywordError ==
  IsConstructCall =>
    LET cls == types[call.cls]
        kwbad == \E k \in 1..Len(call.kwargs) :
                   \A i \in (Len(call.args) + 1)..Len(cls.fields) :
                     cls.fields[i] # call.kwargs[k].name
    IN  (Unsupplied(cls, call.args, call.kwargs) \cap RequiredFields(cls) # {})
        => /\ ret.status = "TypeError"
           /\ ret.ref = 0
           /\ insts = <<>>
           /\ (ret.msg = "missing") <=> ~kwbad

\* Fields (a, s) with one default: a call with no arguments misses a.
C2_Witness ==
  /\ IsConstructCall
  /\ Len(types[call.cls].fields) = 2
  /\ Len(types[call.cls].defaults) = 1
  /\ call.args = <<>>
  /\ call.kwargs = <<>>
  /\ ret.status = "TypeError"
  /\ ret.msg = "missing"

\* C3 as stated: with valid names and more defaults than fields the call
\* raises where the defaults are bound and returns no class.
C3_TooManyDefaultsFails ==
  (/\ IsFactoryCall
   /\ namedtuple(call.typename, call.field_names).status = "ok"
   /\ Len(call.defaults.vals) > Len(GivenNames(call.field_names)))
  => /\ ret.status # "ok"
     /\ ret.line = 2
     /\ ret.ref = 0

\* C4: a delimited string and the sequence of the names written in it give
\* the same outcome: the same error, or classes with the same fields and
\* defaults, which then answer every construction alike.
C4_StringAsSequence ==
  /\ (IsFactoryCall /\ call.field_names.kind = "str") =>
       LET other == namedtuple_defaults(call.typename,
                                        SeqForm(Tokens(call.field_names.chars)),
                                        call.defaults)
       IN  /\ other.status = ret.status
           /\ other.msg = ret.msg
           /\ other.line = ret.line
           /\ ret.status = "ok" => types[ret.ref] = other.cls
  /\ IsConstructCall =>
       LET cls   == types[call.cls]
           other == namedtuple_defaults(cls.name, SeqForm(cls.fields),
                                        TupleOf(cls.defaults)).cls
           r     == BindArgs(other, <<call.cls>> \o call.args, call.kwargs)
       IN  /\ r.status = ret.status
           /\ r.msg = ret.msg
           /\ ret.status = "ok" => insts[ret.ref].vals = r.vals

\* The string "a,s" has given a class with the fields (a, s), and it was called.
C4_Witness ==
  /\ IsConstructCall
  /\ types[call.cls].fields = <<<<"a">>, <<"s">>>>
  /\ \E i \in 1..Len(types[call.cls].defaults) : TRUE
  /\ ret.status = "ok"
  /\ Len(call.args) = 1

\* C8: a field list with a duplicated name, an empty name or a name that
\* is no identifier makes the call raise ValueError inside namedtuple,
\* before the defaults are bound, and no class is returned.
C8_InvalidFieldName ==
  IsFactoryCall =>
    LET names == GivenNames(call.field_names)
    IN  (\/ \E i, j \in 1..Len(names) : i # j /\ names[i] = names[j]
         \/ \E i \in 1..Len(names) : names[i] = <<>>
         \/ \E i \in 1..Len(names) : ~IsIdentifier(names[i]))
        => /\ ret.status = "ValueError"
           /\ ret.line = 1
           /\ ret.ref = 0
           /\ types = <<>>

\* The one-element list ['a s'] is rejected as no identifier.
C8_Witness ==
  /\ IsFactoryCall
  /\ call.field_names = SeqForm(<<<<"a", " ", "s">>>>)
  /\ call.typename = <<"L">>
  /\ call.defaults.kind = "tuple"
  /\ ret.status = "ValueError"
  /\ ret.msg = "identifier"
  /\ ret.line = 1

----------------------------------------------------------------------------
(* Properties of the heap of classes and instances over several calls      *)
(* (Spec).                                                                 *)

\* C5: a successful call returns a class with an identity no class returned
\* earlier has, identical arguments or not, and no call changes the fields
\* or the defaults of a class returned earlier.
C5_Step ==
  /\ \A t \in DOMAIN types : t \in DOMAIN types' /\ types'[t] = types[t]
  /\ (call'.op = "namedtuple_defaults" /\ ret'.status = "ok")
       => /\ ret'.ref \notin DOMAIN types
          /\ ret'.ref \in DOMAIN types'
          /\ Len(types') = Len(types) + 1

\* C5: every step returns fresh classes and leaves the earlier ones alone.
C5_FreshTypes == [][C5_Step]_vars

\* Two calls with identical arguments have returned two classes.
C5_Witness ==
  /\ IsFactoryCall
  /\ ret.status = "ok"
  /\ ret.ref = 2
  /\ types[1] = types[2]

\* C6 as stated: every field of a new instance reads, by name, as the value
\* supplied for it or else its default; a read of a field of any instance
\* returns the value the instance holds for it; two instances of one class
\* that read alike field by field compare equal.
C6_FieldAccess ==
  /\ (IsConstructCall /\ ret.status = "ok") =>
       LET inst == insts[ret.ref]
           cls  == types[inst.cls]
       IN  \A i \in 1..Len(cls.fields) :
             GetAttr(cls, inst, cls.fields[i]) =
               [status |-> "ok",
                value |-> ExpectedValue(cls, call.args, call.kwargs, i),
                ref |-> 0]
  /\ call.op = "getattr" =>
       LET inst == insts[call.inst]
           cls  == types[inst.cls]
       IN  \A i \in 1..Len(cls.fields) :
             cls.fields[i] = call.name
               => ret.status = "ok" /\ ret.value = inst.vals[i]
  /\ call.op = "eq" =>
       LET a   == insts[call.left]
           b   == insts[call.right]
           cls == types[a.cls]
       IN  (/\ a.cls = b.cls
            /\ \A i \in 1..Len(cls.fields) :
                 GetAttr(cls, a, cls.fields[i]) = GetAttr(cls, b, cls.fields[i]))
           => ret.eq = TRUE

\* The step that is no call of the function, construction, read, comparison
\* or assignment to a field: a class is assigned to __class__.
IsClassAssignment(c) ==
  c.op = "setattr" /\ c.name = ClassAttr /\ c.value.kind = "class"

\* C7: a call of the function, a construction, a read, a comparison or an
\* assignment to an attribute named like a field changes no existing
\* instance (its class, hence its field set and field order, and its
\* values), and such an assignment raises; no step at all changes the
\* values of an instance or a class.
C7_Step ==
  /\ \A i \in DOMAIN insts :
       /\ i \in DOMAIN insts'
       /\ insts'[i].vals = insts[i].vals
       /\ ~IsClassAssignment(call')
            => /\ insts'[i] = insts[i]
               /\ types'[insts'[i].cls] = types[insts[i].cls]
  /\ \A t \in DOMAIN types : types'[t] = types[t]
  /\ (call'.op = "setattr" /\ call'.name # ClassAttr)
       => ret'.status = "AttributeError"

\* C7: the steps other than an assignment of a class to __class__ leave the
\* existing instances alone, and assignments to fields raise.
C7_Immutable == [][C7_Step]_vars

\* An assignment to a field of an instance has been attempted.
C7_Witness ==
  /\ call.op = "setattr"
  /\ \E k \in 1..Len(types[insts[call.inst].cls].fields) :
       /\ types[insts[call.inst].cls].fields[k] = call.name
       /\ insts[call.inst].vals[k] # call.value.val
  /\ ret.status = "AttributeError"

\* C9: a call that succeeds adds one complete object (a class with all the
\* names given as fields and all the defaults given bound; an instance with
\* a value for every field of its class) and nothing else; a call that
\* raises returns no object and leaves every class and instance as it was.
C9_Step ==
  /\ (call'.op = "namedtuple_defaults" /\ ret'.status = "ok")
       => /\ types' = Append(types, Class(call'.typename,
                                          GivenNames(call'.field_names),
                                          call'.defaults.vals))
          /\ ret'.ref = Len(types')
          /\ insts' = insts
  /\ (call'.op = "construct" /\ ret'.status = "ok")
       => /\ Len(insts') = Len(insts) + 1
          /\ \A i \in DOMAIN insts : insts'[i] = insts[i]
          /\ ret'.ref = Len(insts')
          /\ insts'[ret'.ref].cls = call'.cls
          /\ Len(insts'[ret'.ref].vals) = Len(types[call'.cls].fields)
          /\ \A k \in 1..Len(insts'[ret'.ref].vals) : insts'[ret'.ref].vals[k] # NULL
          /\ types' = types
  /\ ret'.status # "ok"
       => /\ ret'.ref = 0
          /\ types' = types
          /\ insts' = insts

\* C9: every step adds one complete object or, raising, changes nothing.
C9_NoPartialConstruction == [][C9_Step]_vars

\* With a class and an instance in the heap, a call has raised where the
\* defaults are bound.
C9_Witness ==
  /\ IsFactoryCall
  /\ ret.status = "TypeError"
  /\ ret.line = 2
  /\ Len(types) >= 1
  /\ Len(insts) >= 1

\* The number of fields an instance has: those of its class.
NumFields(inst) == Len(types[inst.cls].fields)

\* The value an instance gives for the field at position k of its class.
FieldValue(inst, k) ==
  GetAttr(types[inst.cls], inst, types[inst.cls].fields[k])

\* C10 as stated: instances of two different classes compare equal exactly
\* when they have the same number of fields and equal values position by
\* position.
C10_EqualityIgnoresType ==
  call.op = "eq" =>
    LET a == insts[call.left]
        b == insts[call.right]
    IN  a.cls # b.cls
        => (ret.eq <=> /\ NumFields(a) = NumFields(b)
                       /\ \A k \in 1..Min(NumFields(a), NumFields(b)) :
                            FieldValue(a, k) = FieldValue(b, k))

====
